---------------------------- MODULE Spec2Model ----------------------------
(***************************************************************************)
(* State-machine model of reflex_takktile_hand.py: the ReflexTakktileHand  *)
(* controller (command callbacks, tactile-stop interlock, command          *)
(* arbitration) and the control loop of main() with its comms watchdog.    *)
(*                                                                         *)
(* rospy runs every subscriber callback and every service handler on a     *)
(* thread of its own, next to the thread of main(); the model therefore    *)
(* gives each callback a program counter and interleaves their steps.      *)
(* Time is counted in hundredths of a second.                              *)
(***************************************************************************)
EXTENDS Integers, Sequences, FiniteSets, TLC

(* ---- bounds of the model ---- *)
MaxCalls     == 2   \* inbound command / service requests in one run
MaxRaceCalls == 3   \* the same, in the runs that look for races between callbacks
MaxTicks     == 4   \* loop iterations recorded in the event log
MaxFeedback  == 2   \* hand-state messages in one run
MaxAdvances  == 3   \* clock advances in one run

(* ---- fixed shape of the hand ---- *)
NumMotors  == 4    \* f1, f2, f3, preshape (in this order)
NumFingers == 3    \* f1, f2, f3
Motors     == 1..NumMotors
Fingers    == 1..NumFingers
Preshape   == NumMotors

comms_timeout == 5       \* seconds
DefaultSpeed  == 0       \* the speed reset_speeds() puts back

Handlers == {"cmd", "angle", "vel", "force"}
Services == {"enable_srv", "disable_srv"}
Callers  == Handlers \cup Services
Classes  == {"speed", "position", "torque"}

VARIABLES
  tactile_stops_enabled,      \* self.tactile_stops_enabled
  motor_tactile,              \* per motor: the motor's own tactile-stop state
  commanded_speed,            \* per motor setpoints
  commanded_position,
  commanded_torque,
  speed_update_occurred,      \* per motor dirty flags
  position_update_occurred,
  torque_update_occurred,
  motor_state,                \* per motor: last feedback record delivered
  finger_state,               \* per finger: last feedback record delivered
  latest_update,              \* self.latest_update (watchdog clock)
  now,                        \* rospy.get_rostime()
  shutdown_calls,             \* number of rospy.signal_shutdown calls
  pc, reset, data, step,      \* command callbacks / services: position and locals
  hs_pc, hs_data, hs_status,  \* hand-state callback: position, message, outcome
  tick_pc, tick_cls,          \* control loop: position and class being serviced
  tick_emitted,               \* classes emitted by the current loop iteration
  log,                        \* observed events: returned callbacks, finished ticks
  force_override,             \* history: a force command has arrived and no enable
                              \* request was made or took effect since
  calls_left, nfeedback, nadvances

handVars  == <<tactile_stops_enabled, motor_tactile>>
setVars   == <<commanded_speed, commanded_position, commanded_torque>>
flagVars  == <<speed_update_occurred, position_update_occurred, torque_update_occurred>>
fbVars    == <<motor_state, finger_state, latest_update>>
cbVars    == <<pc, reset, data, step, calls_left, force_override>>
hsVars    == <<hs_pc, hs_data, hs_status, nfeedback>>
tickVars  == <<tick_pc, tick_cls, tick_emitted, shutdown_calls>>
timeVars  == <<now, nadvances>>
vars      == <<handVars, setVars, flagVars, fbVars, cbVars, hsVars, tickVars,
               timeVars, log>>

(* ---- messages ---- *)
Vec(k)     == [m \in Motors |-> NumMotors * (k - 1) + m]
Payloads   == {Vec(1)}
Commands   == [velocity : Payloads, pose : Payloads]
NoData     == <<>>
NoRecord   == [kind |-> "none", msg |-> 0, idx |-> 0]
AllFalse   == [m \in Motors |-> FALSE]
AllTrue    == [m \in Motors |-> TRUE]

\* an entry of the event log: "disable" / "enable" / "return" of caller `who`,
\* or a "tick" of the loop that emitted the command of class `who`
Event(e, w, r, v) == [ev |-> e, who |-> w, reset |-> r, vals |-> v]

(* ---- setters of ReflexHand: the per-motor writes they make, in order ---- *)
set_speeds(v)     == [m \in Motors |-> <<"speed", m, v[m]>>]
set_angles(p)     == [m \in Motors |-> <<"position", m, p[m]>>]
reset_speeds      == [m \in Motors |-> <<"speed", m, DefaultSpeed>>]
set_velocities(v) == [m \in Motors |-> <<"speed", m, v[m]>>]
set_force_cmds(f) == [m \in Motors |-> <<"torque", m, f[m]>>]

\* the setter calls each handler makes between its disable and its enable
Mutations(h, d) ==
  CASE h = "cmd"   -> set_speeds(d.velocity) \o set_angles(d.pose)
    [] h = "angle" -> reset_speeds \o set_angles(d)
    [] h = "vel"   -> set_velocities(d)
    [] h = "force" -> reset_speeds \o set_force_cmds(d)

\* one motor's setter: the setpoint is stored and its dirty flag raised
Write(w) ==
  LET f == w[1]  m == w[2]  v == w[3] IN
  /\ commanded_speed' = IF f = "speed" THEN [commanded_speed EXCEPT ![m] = v]
                        ELSE commanded_speed
  /\ commanded_position' = IF f = "position" THEN [commanded_position EXCEPT ![m] = v]
                           ELSE commanded_position
  /\ commanded_torque' = IF f = "torque" THEN [commanded_torque EXCEPT ![m] = v]
                         ELSE commanded_torque
  /\ speed_update_occurred' = IF f = "speed" THEN [speed_update_occurred EXCEPT ![m] = TRUE]
                              ELSE speed_update_occurred
  /\ position_update_occurred' = IF f = "position"
                                 THEN [position_update_occurred EXCEPT ![m] = TRUE]
                                 ELSE position_update_occurred
  /\ torque_update_occurred' = IF f = "torque" THEN [torque_update_occurred EXCEPT ![m] = TRUE]
                               ELSE torque_update_occurred

\* the state main() has built once the constructor has returned; `budget` is the
\* number of inbound requests the run may still make
Start(budget) ==
  /\ tactile_stops_enabled = FALSE
  /\ motor_tactile = AllFalse
  /\ commanded_speed = [m \in Motors |-> DefaultSpeed]
  /\ commanded_position = [m \in Motors |-> 0]
  /\ commanded_torque = [m \in Motors |-> 0]
  /\ speed_update_occurred = AllFalse
  /\ position_update_occurred = AllFalse
  /\ torque_update_occurred = AllFalse
  /\ motor_state = [m \in Motors |-> NoRecord]
  /\ finger_state = [f \in Fingers |-> NoRecord]
  /\ latest_update = 0
  /\ now = 0
  /\ shutdown_calls = 0
  /\ pc = [c \in Callers |-> "idle"]
  /\ reset = [c \in Callers |-> FALSE]
  /\ data = [c \in Callers |-> NoData]
  /\ step = [c \in Callers |-> 0]
  /\ force_override = FALSE
  /\ hs_pc = 0
  /\ hs_data = NoData
  /\ hs_status = "idle"
  /\ tick_pc = "idle"
  /\ tick_cls = "none"
  /\ tick_emitted = {}
  /\ log = <<>>
  /\ calls_left = budget
  /\ nfeedback = 0
  /\ nadvances = 0

Init == Start(MaxCalls)

(* ---- command callbacks ---- *)

\* entry of a wrapped handler: reset = self.tactile_stops_enabled
Enter(h, d) ==
  /\ pc[h] = "idle"
  /\ calls_left > 0
  /\ calls_left' = calls_left - 1
  /\ reset' = [reset EXCEPT ![h] = tactile_stops_enabled]
  /\ data' = [data EXCEPT ![h] = d]
  /\ step' = [step EXCEPT ![h] = 0]
  /\ pc' = [pc EXCEPT ![h] = IF tactile_stops_enabled THEN "disable" ELSE "mutate"]
  /\ UNCHANGED <<force_override, handVars, setVars, flagVars, fbVars, hsVars, tickVars,
                 timeVars>>

receive_cmd_cb == \E d \in Commands : Enter("cmd", d)

receive_angle_cmd_cb == \E d \in Payloads : Enter("angle", d)

receive_vel_cmd_cb == \E d \in Payloads : Enter("vel", d)

\* (mutant) an inbound command counted as a sign of life of the hand
receive_force_cmd_cb_touches_clock ==
  \E d \in Payloads :
    /\ pc["force"] = "idle"
    /\ calls_left > 0
    /\ calls_left' = calls_left - 1
    /\ data' = [data EXCEPT !["force"] = d]
    /\ step' = [step EXCEPT !["force"] = 0]
    /\ pc' = [pc EXCEPT !["force"] = "disable"]
    /\ force_override' = TRUE
    /\ latest_update' = now
    /\ UNCHANGED <<reset, handVars, setVars, flagVars, motor_state, finger_state, hsVars,
                   tickVars, timeVars>>

\* the force handler disables unconditionally and never re-enables
receive_force_cmd_cb ==
  \E d \in Payloads :
    /\ pc["force"] = "idle"
    /\ calls_left > 0
    /\ calls_left' = calls_left - 1
    /\ data' = [data EXCEPT !["force"] = d]
    /\ step' = [step EXCEPT !["force"] = 0]
    /\ pc' = [pc EXCEPT !["force"] = "disable"]
    /\ force_override' = TRUE
    /\ UNCHANGED <<reset, handVars, setVars, flagVars, fbVars, hsVars,
                   tickVars, timeVars>>

\* the /enable_tactile_stops and /disable_tactile_stops service requests
enable_request ==
  /\ pc["enable_srv"] = "idle"
  /\ calls_left > 0
  /\ calls_left' = calls_left - 1
  /\ pc' = [pc EXCEPT !["enable_srv"] = "enable_wait"]
  /\ force_override' = FALSE
  /\ UNCHANGED <<reset, data, step, handVars, setVars, flagVars, fbVars, hsVars,
                 tickVars, timeVars>>

disable_request ==
  /\ pc["disable_srv"] = "idle"
  /\ calls_left > 0
  /\ calls_left' = calls_left - 1
  /\ pc' = [pc EXCEPT !["disable_srv"] = "disable"]
  /\ UNCHANGED <<reset, data, step, force_override, handVars, setVars, flagVars, fbVars,
                 hsVars, tickVars, timeVars>>

\* what a caller does when its callback returns
Return(c) ==
  /\ pc' = [pc EXCEPT ![c] = "idle"]
  /\ reset' = [reset EXCEPT ![c] = FALSE]
  /\ data' = [data EXCEPT ![c] = NoData]
  /\ step' = [step EXCEPT ![c] = 0]
  /\ force_override' = IF c = "enable_srv" THEN FALSE ELSE force_override

\* disable_tactile_stops up to its sleep: flag off, every motor told to stop
disable_tactile_stops(c) ==
  /\ pc[c] = "disable"
  /\ tactile_stops_enabled' = FALSE
  /\ motor_tactile' = AllFalse
  /\ pc' = [pc EXCEPT ![c] = "settle"]
  /\ UNCHANGED <<reset, data, step, calls_left, force_override, setVars, flagVars,
                 fbVars, hsVars, tickVars, timeVars>>

\* the settle sleep of disable_tactile_stops is over and it returns
disable_return(c) ==
  /\ pc[c] = "settle"
  /\ IF c \in Handlers
     THEN /\ pc' = [pc EXCEPT ![c] = "mutate"]
          /\ UNCHANGED <<reset, data, step, force_override>>
     ELSE Return(c)
  /\ UNCHANGED <<calls_left, handVars, setVars, flagVars, fbVars, hsVars, tickVars,
                 timeVars>>

\* (mutant) enable_tactile_stops called after the setters whatever `reset` is
mutate_always_enables(h) ==
  /\ pc[h] = "mutate"
  /\ LET ws == Mutations(h, data[h]) IN
     /\ Write(ws[step[h] + 1])
     /\ IF step[h] + 1 < Len(ws)
        THEN /\ step' = [step EXCEPT ![h] = step[h] + 1]
             /\ UNCHANGED <<pc, reset, data, force_override>>
        ELSE /\ pc' = [pc EXCEPT ![h] = "enable_wait"]
             /\ UNCHANGED <<reset, data, step, force_override>>
  /\ UNCHANGED <<calls_left, handVars, fbVars, hsVars, tickVars, timeVars>>

\* the next per-motor setter call of a handler; after the last one the handler
\* either enters enable_tactile_stops (and sleeps there) or returns
mutate(h) ==
  /\ pc[h] = "mutate"
  /\ LET ws == Mutations(h, data[h]) IN
     /\ Write(ws[step[h] + 1])
     /\ IF step[h] + 1 < Len(ws)
        THEN /\ step' = [step EXCEPT ![h] = step[h] + 1]
             /\ UNCHANGED <<pc, reset, data, force_override>>
        ELSE IF reset[h]
             THEN /\ pc' = [pc EXCEPT ![h] = "enable_wait"]
                  /\ UNCHANGED <<reset, data, step, force_override>>
             ELSE Return(h)
  /\ UNCHANGED <<calls_left, handVars, fbVars, hsVars, tickVars, timeVars>>

\* enable_tactile_stops after its sleep: flag on, every motor told to resume
enable_tactile_stops(c) ==
  /\ pc[c] = "enable_wait"
  /\ tactile_stops_enabled' = TRUE
  /\ motor_tactile' = AllTrue
  /\ Return(c)
  /\ UNCHANGED <<calls_left, setVars, flagVars, fbVars, hsVars, tickVars, timeVars>>

(* ---- command arbitration (one iteration of the control loop) ---- *)
AnyDirty(flags) == \E m \in Motors : flags[m]

\* (mutant) the position branch tested before the speed branch
Arbitrate_position_first ==
  IF AnyDirty(position_update_occurred) THEN "position"
  ELSE IF AnyDirty(speed_update_occurred) THEN "speed"
  ELSE IF AnyDirty(torque_update_occurred) THEN "torque"
  ELSE "none"

\* (mutant) the torque branch tested before the position branch
Arbitrate_torque_before_position ==
  IF AnyDirty(speed_update_occurred) THEN "speed"
  ELSE IF AnyDirty(torque_update_occurred) THEN "torque"
  ELSE IF AnyDirty(position_update_occurred) THEN "position"
  ELSE "none"

\* (mutant) the chain without its torque branch
Arbitrate_without_torque ==
  IF AnyDirty(speed_update_occurred) THEN "speed"
  ELSE IF AnyDirty(position_update_occurred) THEN "position"
  ELSE "none"

\* the if / elif / elif chain of _publish_motor_commands
Arbitrate ==
  IF AnyDirty(speed_update_occurred) THEN "speed"
  ELSE IF AnyDirty(position_update_occurred) THEN "position"
  ELSE IF AnyDirty(torque_update_occurred) THEN "torque"
  ELSE "none"

\* (mutant) `if` in place of `elif`: the later branches are tried as well
RestOfChain_fall_through(c) ==
  IF c = "speed" /\ AnyDirty(position_update_occurred) THEN "position"
  ELSE IF c \in {"speed", "position"} /\ AnyDirty(torque_update_occurred) THEN "torque"
  ELSE "none"

\* the branch tried after the branch of class c has run: none (elif)
RestOfChain(c) == "none"

publish_motor_commands ==
  /\ tick_pc = "idle"
  /\ tick_emitted' = {}
  /\ tick_cls' = Arbitrate
  /\ tick_pc' = IF Arbitrate = "none" THEN "watchdog" ELSE "clear"
  /\ UNCHANGED <<shutdown_calls, handVars, setVars, flagVars, fbVars, cbVars, hsVars,
                 timeVars>>

\* (mutant) the flags of every class cleared by whichever class is serviced
ClearFlags_every_class(c) ==
  /\ speed_update_occurred' = AllFalse
  /\ position_update_occurred' = AllFalse
  /\ torque_update_occurred' = AllFalse

\* first loop of _publish_<class>_commands: the class's flag of every motor off
ClearFlags(c) ==
  /\ speed_update_occurred' = IF c = "speed" THEN AllFalse ELSE speed_update_occurred
  /\ position_update_occurred' = IF c = "position" THEN AllFalse
                                 ELSE position_update_occurred
  /\ torque_update_occurred' = IF c = "torque" THEN AllFalse ELSE torque_update_occurred

publish_clear ==
  /\ tick_pc = "clear"
  /\ ClearFlags(tick_cls)
  /\ tick_pc' = "send"
  /\ UNCHANGED <<tick_cls, tick_emitted, shutdown_calls, handVars, setVars, fbVars,
                 cbVars, hsVars, timeVars>>

\* (mutant) the message built with the preshape setpoint first
Payload_preshape_first(c) ==
  LET src == CASE c = "speed"    -> commanded_speed
               [] c = "position" -> commanded_position
               [] c = "torque"   -> commanded_torque
               [] OTHER          -> [m \in Motors |-> 0]
  IN [m \in Motors |-> src[IF m = 1 THEN Preshape ELSE m - 1]]

\* (mutant) the speed command built from the position setpoints
Payload_positions_on_speed(c) ==
  CASE c = "speed"    -> [m \in Motors |-> commanded_position[m]]
    [] c = "position" -> [m \in Motors |-> commanded_position[m]]
    [] c = "torque"   -> [m \in Motors |-> commanded_torque[m]]
    [] OTHER          -> NoData

\* the message _publish_<class>_commands builds, motors in the order
\* f1, f2, f3, preshape
Payload(c) ==
  CASE c = "speed"    -> [m \in Motors |-> commanded_speed[m]]
    [] c = "position" -> [m \in Motors |-> commanded_position[m]]
    [] c = "torque"   -> [m \in Motors |-> commanded_torque[m]]
    [] OTHER          -> NoData

\* the service call / publish that ends _publish_<class>_commands
publish_send ==
  /\ tick_pc = "send"
  /\ tick_emitted' = tick_emitted \cup {tick_cls}
  /\ IF RestOfChain(tick_cls) = "none"
     THEN tick_pc' = "watchdog" /\ UNCHANGED tick_cls
     ELSE tick_pc' = "clear" /\ tick_cls' = RestOfChain(tick_cls)
  /\ UNCHANGED <<shutdown_calls, handVars, setVars, flagVars, fbVars, cbVars, hsVars,
                 timeVars>>

(* ---- comms watchdog ---- *)
secs(t) == t \div 100

\* (mutant) a fault as soon as the timeout is reached
WatchdogFault_at_timeout(t, last) == secs(t) >= secs(last) + comms_timeout

\* (mutant) one more second of slack before the fault
WatchdogFault_late(t, last) == secs(t) > secs(last) + comms_timeout + 1

WatchdogFault(t, last) == secs(t) > secs(last) + comms_timeout

\* (mutant) the loop goes on after signal_shutdown
watchdog_check_keeps_looping ==
  /\ tick_pc = "watchdog"
  /\ shutdown_calls' = IF WatchdogFault(now, latest_update) /\ shutdown_calls < 2
                       THEN shutdown_calls + 1 ELSE shutdown_calls
  /\ tick_pc' = "idle"
  /\ tick_cls' = "none"
  /\ tick_emitted' = {}
  /\ UNCHANGED <<handVars, setVars, flagVars, fbVars, cbVars, hsVars, timeVars>>

\* main(): the timeout test after _publish_motor_commands, then r.sleep(); after
\* signal_shutdown the loop condition ends the loop
watchdog_check ==
  /\ tick_pc = "watchdog"
  /\ IF WatchdogFault(now, latest_update)
     THEN /\ shutdown_calls' = shutdown_calls + 1
          /\ tick_pc' = "exited"
          /\ UNCHANGED <<tick_cls, tick_emitted>>
     ELSE /\ tick_pc' = "idle"
          /\ tick_cls' = "none"
          /\ tick_emitted' = {}
          /\ UNCHANGED shutdown_calls
  /\ UNCHANGED <<handVars, setVars, flagVars, fbVars, cbVars, hsVars, timeVars>>

(* ---- hand-state feedback ---- *)

\* the n-th hand-state message of a run; a well-formed one has NumMotors motor
\* records and NumFingers finger records, a malformed one is a record short
Record(k, n, i) == [kind |-> k, msg |-> n, idx |-> i]

HandMsgs(n) ==
  {[motor  |-> [i \in 1..nm |-> Record("motor", n, i)],
    finger |-> [i \in 1..nf |-> Record("finger", n, i)]] :
      nm \in {NumMotors - 1, NumMotors}, nf \in {NumFingers - 1, NumFingers}}

\* (mutant) the last two motor records delivered to each other's actuator
MotorTarget_swapped(i) == IF i = NumMotors THEN NumMotors - 1
                          ELSE IF i = NumMotors - 1 THEN NumMotors ELSE i

\* data.motor[i-1] goes to the i-th actuator (f1, f2, f3, preshape),
\* data.finger[i-1] to the i-th finger
MotorTarget(i)  == i
FingerTarget(i) == i

\* entry of _receive_hand_state_cb: the watchdog clock is set first
receive_hand_state_cb ==
  /\ hs_pc = 0
  /\ nfeedback < MaxFeedback
  /\ \E msg \in HandMsgs(nfeedback + 1) : hs_data' = msg
  /\ nfeedback' = nfeedback + 1
  /\ latest_update' = now
  /\ hs_pc' = 1
  /\ hs_status' = "running"
  /\ UNCHANGED <<motor_state, finger_state, handVars, setVars, flagVars, cbVars,
                 tickVars, timeVars>>

\* the hs_pc-th of the seven _receive_state_cb calls; indexing past the end of
\* a short list raises IndexError and ends the callback
deliver ==
  /\ hs_pc > 0
  /\ LET k     == hs_pc
         isM   == k <= NumMotors
         i     == IF isM THEN k ELSE k - NumMotors
         list  == IF isM THEN hs_data.motor ELSE hs_data.finger
     IN
     IF i > Len(list)
     THEN /\ hs_status' = "rejected"
          /\ hs_pc' = 0
          /\ UNCHANGED <<motor_state, finger_state>>
     ELSE /\ motor_state' = IF isM THEN [motor_state EXCEPT ![MotorTarget(i)] = list[i]]
                            ELSE motor_state
          /\ finger_state' = IF isM THEN finger_state
                             ELSE [finger_state EXCEPT ![FingerTarget(i)] = list[i]]
          /\ hs_pc' = IF k = NumMotors + NumFingers THEN 0 ELSE k + 1
          /\ hs_status' = IF k = NumMotors + NumFingers THEN "done" ELSE "running"
  /\ UNCHANGED <<hs_data, nfeedback, latest_update, handVars, setVars, flagVars,
                 cbVars, tickVars, timeVars>>

(* ---- the clock ---- *)
TimeSteps == {1, 99, 500}

advance ==
  /\ nadvances < MaxAdvances
  /\ nadvances' = nadvances + 1
  /\ \E d \in TimeSteps : now' = now + d
  /\ UNCHANGED <<handVars, setVars, flagVars, fbVars, cbVars, hsVars, tickVars>>

\* The concurrent specification: every callback on its own thread, next to the
\* control loop. The clock stands still and the event log is not kept.
Next ==
  \/ receive_cmd_cb /\ UNCHANGED log
  \/ receive_angle_cmd_cb /\ UNCHANGED log
  \/ receive_vel_cmd_cb /\ UNCHANGED log
  \/ receive_force_cmd_cb /\ UNCHANGED log
  \/ enable_request /\ UNCHANGED log
  \/ disable_request /\ UNCHANGED log
  \/ \E c \in Callers : disable_tactile_stops(c) /\ UNCHANGED log
  \/ \E c \in Callers : disable_return(c) /\ UNCHANGED log
  \/ \E h \in Handlers : mutate(h) /\ UNCHANGED log
  \/ \E c \in Callers : enable_tactile_stops(c) /\ UNCHANGED log
  \/ publish_motor_commands /\ UNCHANGED log
  \/ publish_clear /\ UNCHANGED log
  \/ publish_send /\ UNCHANGED log
  \/ watchdog_check /\ UNCHANGED log

Spec == Init /\ [][Next]_vars

\* The same threads with one more inbound request, for the races that need an
\* interlock enabled beforehand.
InitRace == Start(MaxRaceCalls)

SpecRace == InitRace /\ [][Next]_vars


\* The control loop under a running clock, interleaved with the feedback
\* callback. The force handler gives the loop something to emit; here a command
\* is handled to its end before anything else goes on (serialized command
\* handling), which keeps the clock cases apart from the races of SpecRace.
CallersIdle == \A c \in Callers : pc[c] = "idle"
Quiet       == CallersIdle /\ tick_pc \in {"idle", "exited"} /\ hs_pc = 0

NextWatchdog ==
  \/ CallersIdle /\ advance /\ UNCHANGED log
  \/ CallersIdle /\ receive_hand_state_cb /\ UNCHANGED log
  \/ CallersIdle /\ deliver /\ UNCHANGED log
  \/ Quiet /\ receive_force_cmd_cb /\ UNCHANGED log
  \/ disable_tactile_stops("force") /\ UNCHANGED log
  \/ disable_return("force") /\ UNCHANGED log
  \/ mutate("force") /\ UNCHANGED log
  \/ CallersIdle /\ publish_motor_commands /\ UNCHANGED log
  \/ publish_clear /\ UNCHANGED log
  \/ publish_send /\ UNCHANGED log
  \/ watchdog_check /\ UNCHANGED log

SpecWatchdog == Init /\ [][NextWatchdog]_vars

\* The serialized specification: a callback or a loop iteration starts only
\* when nothing else is under way (cooperative scheduling), and the event log
\* records what an observer of the hand sees.
TicksLogged == Cardinality({i \in 1..Len(log) : log[i].ev = "tick"})

Returned(c) ==
  log' = IF pc'[c] = "idle" THEN Append(log, Event("return", c, reset[c], data[c]))
         ELSE log

NextSerial ==
  \/ Quiet /\ receive_cmd_cb /\ UNCHANGED log
  \/ Quiet /\ receive_angle_cmd_cb /\ UNCHANGED log
  \/ Quiet /\ receive_vel_cmd_cb /\ UNCHANGED log
  \/ Quiet /\ receive_force_cmd_cb /\ UNCHANGED log
  \/ Quiet /\ enable_request /\ UNCHANGED log
  \/ Quiet /\ disable_request /\ UNCHANGED log
  \/ \E c \in Callers : /\ disable_tactile_stops(c)
                        /\ log' = Append(log, Event("disable", c, reset[c], NoData))
  \/ \E c \in Callers : disable_return(c) /\ Returned(c)
  \/ \E h \in Handlers : mutate(h) /\ Returned(h)
  \/ \E c \in Callers : /\ enable_tactile_stops(c)
                        /\ log' = log \o <<Event("enable", c, reset[c], NoData),
                                           Event("return", c, reset[c], data[c])>>
  \/ /\ Quiet
     /\ TicksLogged < MaxTicks
     /\ publish_motor_commands
     /\ log' = IF Arbitrate = "none" THEN Append(log, Event("tick", "none", FALSE, NoData))
               ELSE log
  \/ publish_clear /\ UNCHANGED log
  \/ publish_send /\ log' = Append(log, Event("tick", tick_cls, FALSE, Payload(tick_cls)))
  \/ watchdog_check /\ UNCHANGED log

SpecSerial == Init /\ [][NextSerial]_vars

(***************************************************************************)
(* Properties                                                              *)
(***************************************************************************)
TickBegins == tick_pc = "idle" /\ tick_pc' # "idle"
TickClears == tick_pc = "clear" /\ tick_pc' # "clear"
TickSends  == tick_pc = "send" /\ tick_pc' # "send"

C2_OneClassPerTick == Cardinality(tick_emitted) <= 1

\* a tick that has emitted while a handler was in the middle of its setters and
\* a lower class was dirty
C2_Witness ==
  /\ tick_pc = "watchdog"
  /\ tick_emitted = {"speed"}
  /\ AnyDirty(position_update_occurred)
  /\ \E h \in Handlers : pc[h] = "mutate" /\ step[h] > 0

\* a per-motor setter call made by wrapped handler h
Writes(h) == pc[h] = "mutate" /\ <<pc[h], step[h]>>' # <<pc[h], step[h]>>

\* C3: a combined, angle or velocity handler that found the interlock enabled
\* runs disable -> setters -> enable in this order (its setters start only once
\* disable_tactile_stops has returned, enable_tactile_stops starts only after
\* the last setter), and tactile_stops_enabled is false whenever it writes a
\* setpoint.
C3_DisableMutateEnable ==
  [][ \A h \in Handlers \ {"force"} :
        /\ (reset'[h] /\ pc[h] # "mutate" /\ pc'[h] = "mutate") => pc[h] = "settle"
        /\ (reset[h] /\ pc[h] # "enable_wait" /\ pc'[h] = "enable_wait")
             => pc[h] = "mutate" /\ step[h] + 1 = Len(Mutations(h, data[h]))
        /\ (reset[h] /\ Writes(h)) => ~tactile_stops_enabled
    ]_vars

\* C4: once the force handler has run, the interlock is off and stays off until
\* an explicit enable request; no wrapped handler turns it back on.
C4_ForceOverrideHolds ==
  (force_override /\ pc["force"] = "idle") => ~tactile_stops_enabled

\* a toggle by caller c takes effect (the flag and the motors are written)
Toggles(c) == pc[c] \in {"disable", "enable_wait"} /\ pc'[c] # pc[c]

\* C10: no toggle takes effect while another toggle is in its settle delay.
C10_TogglesNeverInterleave ==
  [][ \A c \in Callers :
        Toggles(c) => \A o \in Callers \ {c} : pc[o] \notin {"settle", "enable_wait"}
    ]_vars

WatchdogChecks == tick_pc = "watchdog" /\ tick_pc' # "watchdog"
Timeout        == 100 * comms_timeout     \* the timeout in clock units

\* C5 (as stated): with last feedback time T the check at now = T + 5.00 s
\* reports no fault and the check at now = T + 5.01 s reports a fault, for
\* every T.
C5_StrictBoundary ==
  [][ WatchdogChecks =>
        /\ (now = latest_update + Timeout) => shutdown_calls' = shutdown_calls
        /\ (now = latest_update + Timeout + 1) => shutdown_calls' = shutdown_calls + 1
    ]_vars

\* C5 (amended): the test compares whole seconds. The check at T + 5.00 s
\* reports no fault for every T; the check at T + 5.01 s reports a fault
\* exactly when T lies in the last hundredth of its second; and the check at
\* T + 6.00 s or later reports a fault for every T.
C5_WholeSecondBoundary ==
  [][ WatchdogChecks =>
        /\ (now = latest_update + Timeout) => shutdown_calls' = shutdown_calls
        /\ (now = latest_update + Timeout + 1)
             => (shutdown_calls' = shutdown_calls + 1 <=> latest_update % 100 = 99)
        /\ (now >= latest_update + Timeout + 100) => shutdown_calls' = shutdown_calls + 1
    ]_vars

\* the loop has stopped on a check made 5.01 s after a feedback that came in the
\* last hundredth of a second
C5_Witness ==
  /\ tick_pc = "exited"
  /\ latest_update % 100 = 99
  /\ now = latest_update + Timeout + 1

\* C7: a check made 6 s or more after the last feedback calls shutdown; shutdown
\* is called at most once and only by a check that found the fault; after the
\* call the loop takes no further step and emits nothing more.
C7_ShutdownOnce ==
  /\ [](shutdown_calls <= 1)
  /\ [][ /\ (WatchdogChecks /\ now >= latest_update + Timeout + 100)
              => shutdown_calls' = 1 /\ tick_pc' = "exited"
         /\ (shutdown_calls' # shutdown_calls)
              => WatchdogChecks /\ WatchdogFault(now, latest_update)
         /\ (shutdown_calls > 0) => UNCHANGED tickVars
       ]_vars

\* the loop was shut down after 6 s of silence with a torque command pending
C7_Witness ==
  /\ shutdown_calls = 1
  /\ tick_pc = "exited"
  /\ now >= latest_update + Timeout + 100
  /\ AnyDirty(torque_update_occurred)

\* the records of the message being handled (the nfeedback-th)
HasCurrent(r) == r.msg = nfeedback

\* C8: the callback sets the watchdog clock before it delivers anything, then
\* delivers motor[0..3] to f1, f2, f3, preshape and finger[0..2] to the fingers
\* f1, f2, f3, in this order; every actuator and finger only ever holds the
\* record of its own index, so motor[3] reaches the preshape actuator alone.
C8_FeedbackRouting ==
  /\ [] /\ \A m \in Motors : motor_state[m] = NoRecord \/
                             (motor_state[m].kind = "motor" /\ motor_state[m].idx = m)
        /\ \A f \in Fingers : finger_state[f] = NoRecord \/
                              (finger_state[f].kind = "finger" /\ finger_state[f].idx = f)
        /\ hs_pc > 0 =>
             /\ \A m \in Motors : HasCurrent(motor_state[m]) <=> m < hs_pc
             /\ \A f \in Fingers : HasCurrent(finger_state[f]) <=> NumMotors + f < hs_pc
        /\ hs_status = "done" =>
             /\ \A m \in Motors : motor_state[m] = hs_data.motor[m]
             /\ \A f \in Fingers : finger_state[f] = hs_data.finger[f]
  /\ [][ (hs_pc = 0 /\ hs_pc' # 0)
           => latest_update' = now /\ UNCHANGED <<motor_state, finger_state>> ]_vars

\* a second message has been delivered in full
C8_Witness ==
  /\ hs_status = "done"
  /\ nfeedback = 2
  /\ motor_state[Preshape] = Record("motor", 2, NumMotors)
  /\ finger_state[NumFingers] = Record("finger", 2, NumFingers)

\* C9: a message with a motor or finger record missing is rejected as a whole:
\* no actuator or finger holds a record of a rejected message.
C9_RejectedWhole ==
  hs_status = "rejected" =>
    /\ \A m \in Motors : ~HasCurrent(motor_state[m])
    /\ \A f \in Fingers : ~HasCurrent(finger_state[f])

\* the log entry at i is the return of an angle handler that found the interlock
\* enabled
AngleHandled(i) ==
  /\ log[i].ev = "return"
  /\ log[i].who = "angle"
  /\ log[i].reset

IsTick(i) == i <= Len(log) /\ log[i].ev = "tick"

Applied == {[m \in Motors |-> 0], [m \in Motors |-> DefaultSpeed]} \cup Payloads

\* C11: every command a tick emits carries, for the 4 actuators, the setpoints
\* of fully applied inbound commands; no payload mixes the values of a command
\* with the values from before it.
C11_NoHalfAppliedPayload ==
  [][ TickSends => Payload(tick_cls) \in Applied ]_vars

\* The combined and the velocity handler next to the control loop, each on its
\* own thread, with the log keeping the latest command emitted of each class. No
\* interlock request is made, so the handlers go straight to their setters.
Emitted(c, v) == Append(SelectSeq(log, LAMBDA e : e.who # c), Event("tick", c, FALSE, v))

NextEmit ==
  \/ receive_cmd_cb /\ UNCHANGED log
  \/ receive_vel_cmd_cb /\ UNCHANGED log
  \/ \E h \in Handlers : mutate(h) /\ UNCHANGED log
  \/ publish_motor_commands /\ UNCHANGED log
  \/ publish_clear /\ UNCHANGED log
  \/ publish_send /\ log' = Emitted(tick_cls, Payload(tick_cls))
  \/ watchdog_check /\ UNCHANGED log

SpecEmit == Init /\ [][NextEmit]_vars

Commanded(c) == CASE c = "speed"    -> commanded_speed
                  [] c = "position" -> commanded_position
                  [] c = "torque"   -> commanded_torque

Flags(c) == CASE c = "speed"    -> speed_update_occurred
              [] c = "position" -> position_update_occurred
              [] c = "torque"   -> torque_update_occurred

\* the setpoints of class c the hand was last sent (those of construction when
\* no command of the class was emitted yet)
LastSent(c) ==
  IF \E i \in 1..Len(log) : log[i].who = c
  THEN log[CHOOSE i \in 1..Len(log) : log[i].who = c].vals
  ELSE [m \in Motors |-> 0]

Wrapped == Handlers \ {"force"}

\* the set_speed service call raises (rospy.ServiceException: the driver's
\* service is gone); nothing catches it, so it ends main() with the speed flags
\* already cleared
publish_fails ==
  /\ tick_pc = "send"
  /\ tick_cls = "speed"
  /\ tick_pc' = "crashed"
  /\ UNCHANGED <<tick_cls, tick_emitted, shutdown_calls, handVars, setVars, flagVars,
                 fbVars, cbVars, hsVars, timeVars>>

\* a setter call of a wrapped handler raises; the handler has no try / finally,
\* so the exception leaves the callback before its enable_tactile_stops
mutate_fails(h) ==
  /\ pc[h] = "mutate"
  /\ Return(h)
  /\ UNCHANGED <<calls_left, handVars, setVars, flagVars, fbVars, hsVars, tickVars,
                 timeVars>>

\* The serialized specification with the two failures added.
NextFail ==
  \/ NextSerial
  \/ publish_fails /\ UNCHANGED log
  \/ \E h \in Wrapped : mutate_fails(h) /\ Returned(h)

SpecFail == Init /\ [][NextFail]_vars

\* C13: a dirty flag goes from true to false only in the arbiter's clearing step
\* for its class, no other step clears one, and the arbiter never leaves the
\* flags of a class cleared without having emitted the command of that class,
\* also when the emission call fails.
C13_ClearedOnlyWithEmission ==
  [][ /\ \A c \in Classes :
           (\E m \in Motors : Flags(c)[m] /\ ~Flags(c)'[m])
             => TickClears /\ tick_cls = c
      /\ (tick_pc = "send" /\ tick_pc' # "send") => tick_cls \in tick_emitted'
    ]_vars

\* C15: a wrapped handler that found the interlock enabled returns only out of
\* enable_tactile_stops, with the interlock enabled again, on every path, also
\* when one of its setter calls fails.
C15_SequenceCompletes ==
  [][ \A h \in Wrapped :
        (reset[h] /\ pc[h] # "idle" /\ pc'[h] = "idle")
          => pc[h] = "enable_wait" /\ tactile_stops_enabled'
    ]_vars

\* C14: the watchdog clock never decreases and changes only at the entry of the
\* hand-state callback, which sets it to the current time; no command handler,
\* interlock toggle or loop step writes it, and the timeout check decides from
\* the clock and the current time alone, so inbound commands never postpone
\* the fault.
C14_ClockOnlyFeedback ==
  [][ /\ latest_update' >= latest_update
      /\ (latest_update' # latest_update)
           => hs_pc = 0 /\ hs_pc' = 1 /\ latest_update' = now
      /\ (pc' # pc \/ tick_pc' # tick_pc) => latest_update' = latest_update
      /\ WatchdogChecks
           => (shutdown_calls' = shutdown_calls + 1 <=> WatchdogFault(now, latest_update))
    ]_vars

\* the loop was shut down on a feedback that had come after construction,
\* although a force command had been handled since
C14_Witness ==
  /\ shutdown_calls = 1
  /\ nfeedback > 0
  /\ latest_update > 0
  /\ force_override
  /\ AnyDirty(torque_update_occurred)

\* C16: a tick services the highest-priority dirty class in the order speed >
\* position > torque, for every flag combination: it picks that class, clears
\* every flag of that class and of no other, and emits the command of that
\* class; with no flag set it emits nothing and changes no flag or setpoint.
C16_HighestPriorityClass ==
  [][ /\ TickBegins =>
           /\ tick_cls' = (IF AnyDirty(speed_update_occurred) THEN "speed"
                           ELSE IF AnyDirty(position_update_occurred) THEN "position"
                           ELSE IF AnyDirty(torque_update_occurred) THEN "torque"
                           ELSE "none")
           /\ tick_pc' = (IF tick_cls' = "none" THEN "watchdog" ELSE "clear")
           /\ tick_emitted' = {}
           /\ UNCHANGED <<flagVars, setVars>>
      /\ TickClears =>
           /\ tick_cls \in Classes
           /\ \A c \in Classes :
                Flags(c)' = (IF c = tick_cls THEN AllFalse ELSE Flags(c))
           /\ UNCHANGED setVars
      /\ TickSends =>
           /\ tick_emitted' = {tick_cls}
           /\ UNCHANGED <<flagVars, setVars>>
      /\ (WatchdogChecks /\ tick_cls = "none") => tick_emitted = {}
    ]_vars

\* a tick that serviced position while torque was dirty as well, and left the
\* torque flags set
C16_Witness ==
  /\ tick_pc = "watchdog"
  /\ tick_emitted = {"position"}
  /\ ~AnyDirty(speed_update_occurred)
  /\ ~AnyDirty(position_update_occurred)
  /\ torque_update_occurred = AllTrue
  /\ CallersIdle

\* the log entry at i is the return of a combined command's handler
CmdHandled(i) == log[i].ev = "return" /\ log[i].who = "cmd"

\* the position setpoints the hand has been sent by the first n log entries
PositionsSent(n) ==
  LET S == {j \in 1..n : log[j].ev = "tick" /\ log[j].who = "position"} IN
  IF S = {} THEN [m \in Motors |-> 0]
  ELSE log[CHOOSE j \in S : \A k \in S : k <= j].vals

C18_InterlockRestored ==
  [][ \A h \in Wrapped :
        /\ (pc[h] = "idle" /\ pc'[h] # "idle")
             => /\ reset'[h] = tactile_stops_enabled
                /\ pc'[h] = (IF tactile_stops_enabled THEN "disable" ELSE "mutate")
                /\ UNCHANGED handVars
        /\ (pc[h] # "idle" /\ ~reset[h])
             => /\ pc[h] = "mutate"
                /\ pc'[h] \in {"mutate", "idle"}
                /\ UNCHANGED handVars
        /\ (pc[h] # "idle" /\ pc'[h] = "idle")
             => tactile_stops_enabled' = reset[h]
    ]_vars

\* a wrapped handler has returned at startup without a single toggle
C18_Witness ==
  /\ Len(log) > 0
  /\ log[Len(log)].ev = "return"
  /\ log[Len(log)].who \in Wrapped
  /\ ~log[Len(log)].reset
  /\ \A j \in 1..Len(log) : log[j].ev \notin {"disable", "enable"}
  /\ ~tactile_stops_enabled
  /\ motor_tactile = AllFalse

\* the age of the last feedback, in clock units (hundredths of a second)
Age == now - latest_update

\* C19: the watchdog never fires early and detects staleness within a bounded
\* delay: the loop calls shutdown only in a check where the last feedback is
\* more than 5 s old, and every check made when it is 6 s old or older calls
\* shutdown; a check made within 5 s of the last feedback never does.
C19_NeverEarlyBoundedDelay ==
  [][ /\ (shutdown_calls' # shutdown_calls) => WatchdogChecks /\ Age > Timeout
      /\ (WatchdogChecks /\ Age >= Timeout + 100) => shutdown_calls' = shutdown_calls + 1
      /\ (WatchdogChecks /\ Age <= Timeout)
           => shutdown_calls' = shutdown_calls /\ tick_pc' = "idle"
    ]_vars

\* the loop was shut down by a check made exactly 6 s after a feedback message
\* that had come on a whole second
C19_Witness ==
  /\ shutdown_calls = 1
  /\ tick_pc = "exited"
  /\ nfeedback > 0
  /\ Age = Timeout + 100
  /\ latest_update % 100 = 0

\* priority of a class in the arbiter; a tick that emitted nothing comes last
Rank(c) == CASE c = "speed"    -> 1
             [] c = "position" -> 2
             [] c = "torque"   -> 3
             [] OTHER          -> 4

\* the classes the handler behind the return entry e has made dirty
Dirtied(e) ==
  IF e.who \in Handlers
  THEN LET ws == Mutations(e.who, e.vals) IN {ws[k][1] : k \in 1..Len(ws)}
  ELSE {}

\* the log entries i+1 .. i+n are ticks
TicksAfter(i, n) == \A k \in 1..n : IsTick(i + k)

NoFlagSet == \A c \in Classes : ~AnyDirty(Flags(c))

\* C20: preemption loses no lower-priority class. In a run of ticks with no
\* command in between, the classes are emitted in the order speed, position,
\* torque, each at most once and none skipped; every class a handler made dirty
\* is emitted in the ticks that follow its return (or is still pending while
\* fewer than three have run); after three such ticks no flag of any actuator
\* is set, and a fourth one emits nothing.
C20_PreemptionLosesNothing ==
  \A i \in 1..Len(log) :
    /\ (IsTick(i) /\ IsTick(i + 1))
         => \/ Rank(log[i + 1].who) > Rank(log[i].who)
            \/ log[i].who = "none" /\ log[i + 1].who = "none"
    /\ (IsTick(i) /\ i = Len(log) /\ Quiet)
         => \A c \in Classes : AnyDirty(Flags(c)) => Rank(c) > Rank(log[i].who)
    /\ (log[i].ev = "return" /\ TicksAfter(i, 1))
         => /\ Dirtied(log[i]) # {} => Rank(log[i + 1].who) <= 3
            /\ \A c \in Dirtied(log[i]) :
                 \/ \E k \in 1..3 : IsTick(i + k) /\ TicksAfter(i, k) /\ log[i + k].who = c
                 \/ \E k \in 1..2 : /\ TicksAfter(i, k) /\ i + k = Len(log)
                                    /\ \/ AnyDirty(Flags(c))
                                       \/ tick_pc = "send" /\ tick_cls = c
                 \/ \E k \in 1..2 : TicksAfter(i, k) /\ i + k < Len(log) /\ ~IsTick(i + k + 1)
    /\ (TicksAfter(i, 3) /\ i + 3 = Len(log) /\ Quiet) => NoFlagSet
    /\ TicksAfter(i, 4) => log[i + 4].who = "none"

\* a combined and a force command, then four ticks: speed, position, torque,
\* nothing
C20_Witness ==
  /\ Len(log) >= 5
  /\ LET n == Len(log) IN
     /\ log[n - 4].ev = "return"
     /\ log[n - 3].who = "speed"
     /\ log[n - 2].who = "position"
     /\ log[n - 1].who = "torque"
     /\ log[n].ev = "tick" /\ log[n].who = "none"
  /\ NoFlagSet
  /\ Quiet

=============================================================================
